---- MODULE Spec2Model ----
(***************************************************************************)
(* AudioManager of src/shared-env.js: three HTMLAudioElement channels      *)
(* (waves, birds, waves2), the timer registry this.timers, and the chains  *)
(* of setTimeout/setInterval callbacks that start() arms.                  *)
(*                                                                         *)
(* Time is not modelled: every delay is a fresh random number, so any      *)
(* active timer may be the next to fire.  The platform (the browser's      *)
(* timer table and media elements) is modelled beside the object: a timer  *)
(* is active until it fires (setTimeout), completes (clearInterval) or is  *)
(* cleared by stop(); a media element plays until it is paused or reaches  *)
(* its end, and then dispatches 'ended' from the event loop.               *)
(***************************************************************************)
EXTENDS Integers, Sequences, FiniteSets

\* audio[g][c]  the media element of channel c; g = 0 are the elements
\*              this.waves / this.birds / this.waves2 hold, g > 0 those of
\*              earlier runs of init(), the latest first
\* tasks        the platform's active timers: what each one's callback is,
\*              and whether its id is listed in this.timers
\* stale        how many ids listed in this.timers name no active timer
\* active       start() has been called and stop() has not been since
\* calls        how many times the host has called init/start/stop
\* cbs          how many fade completion callbacks the last step called
\* denied       the channel whose play() the platform refused in the last
\*              step, "none" if it refused none
\* uncaught     a promise has been rejected with no handler attached (the
\*              event loop reports it as an unhandled rejection)
\* rand         what Math.random() returns, in units of 1/RandDenom
VARIABLES audio, tasks, stale, active, calls, cbs, denied, uncaught, rand

vars == <<audio, tasks, stale, active, calls, cbs, denied, uncaught, rand>>

\* ---------------------------------------------------------------- bounds
\* The length this.timers may reach; an operation that arms n timers needs
\* room for n ids.
MaxIds == 6
\* Calls the host makes of init(), start() and stop() in one run.
MaxCalls == 3
\* fadeAudio's step count (60 in the source), scaled down; volumes are
\* counted in units of 1/(100*steps) so that volStep is exact.
steps == 3
\* Math.random() returns one of 0, 1/RandDenom, ..., (RandDenom-1)/RandDenom.
RandDenom == 4

Chan == {"waves", "birds", "waves2"}
\* Generations of elements: the one made at load and one per later init().
Gens == 0..MaxCalls
Unit == 100 * steps
Vol(pct) == pct * steps
\* Math.random() * 0.5 + 0.3, in percent: the value for Math.random() = 0.
TargetVols == {30}

Max(a, b) == IF a >= b THEN a ELSE b
Min(a, b) == IF a <= b THEN a ELSE b

\* ------------------------------------------------------- media elements
\* new Audio(...): paused, at position 0, no event queued.
NewAudio(v) == [paused |-> TRUE, volume |-> v, pos |-> 0, ended |-> FALSE]

\* The elements init() allocates, with the volumes it assigns.
InitAudio ==
  [c \in Chan |-> NewAudio(CASE c = "waves" -> Vol(40)
                             [] c = "birds" -> Vol(60)
                             [] OTHER -> Vol(0))]

\* element.pause()
Pause(s, g, c) == [s EXCEPT !.audio[g][c].paused = TRUE]

\* element.play() with no handler on the promise it returns.
PlayNoCatch(s, g, c, ok) ==
  IF ok THEN [s EXCEPT !.audio[g][c].paused = FALSE]
  ELSE [s EXCEPT !.denied = c, !.uncaught = TRUE]

\* element.play().catch(() => {}): ok = FALSE is the platform refusing; the
\* promise rejects, the element is left as it was, and the empty handler
\* takes the rejection.
Play(s, g, c, ok) ==
  IF ok THEN [s EXCEPT !.audio[g][c].paused = FALSE]
  ELSE [s EXCEPT !.denied = c]

\* element.currentTime = 0
SeekToStart(s, g, c) == [s EXCEPT !.audio[g][c].pos = 0]

\* Time passes between any two steps of the event loop: an element that is
\* playing has left its start (position 0) by the time the next step runs.
Elapse(a) ==
  [g \in DOMAIN a |-> [c \in DOMAIN a[g] |->
     IF a[g][c].paused THEN a[g][c] ELSE [a[g][c] EXCEPT !.pos = 1]]]

\* --------------------------------------------------------------- timers
\* Timer ids are opaque: a timer is named by its place among the active
\* ones, and this.timers is the active timers marked `listed` together with
\* `stale` ids of timers that have fired or completed.  The active
\* timers are kept by kind, and those of one kind oldest first.
\* delay is the delay the timeout is armed with, in milliseconds (the
\* period of an interval is not kept).
Timeout(kind, tv, delay) ==
  [kind |-> kind, g |-> 0, startVol |-> 0, endVol |-> tv, step |-> 0,
   phase |-> "none", listed |-> FALSE, delay |-> delay]

Interval(g, startVol, endVol, phase) ==
  [kind |-> "fade", g |-> g, startVol |-> startVol, endVol |-> endVol,
   step |-> 0, phase |-> phase, listed |-> FALSE, delay |-> 0]

\* Math.random() * range + base for Math.random() = r / RandDenom, as the
\* whole number of milliseconds setTimeout makes of it.
RandomDelay(r, range, base) == (r * range) \div RandDenom + base

Rank(kind) ==
  CASE kind = "bird" -> 1 [] kind = "swell" -> 2 [] kind = "hold" -> 3
    [] OTHER -> 4

\* seq with rec put behind the last timer of its kind.
Insert(seq, rec) ==
  LET n == Cardinality({i \in 1..Len(seq) :
                          Rank(seq[i].kind) <= Rank(rec.kind)})
  IN [k \in 1..(Len(seq) + 1) |->
        IF k <= n THEN seq[k] ELSE IF k = n + 1 THEN rec ELSE seq[k - 1]]

\* const t = setTimeout/setInterval(...); this.timers.push(t)
Arm(s, rec) ==
  [s EXCEPT !.tasks = Insert(s.tasks, [rec EXCEPT !.listed = TRUE])]

\* The platform drops timer i (a timeout as it fires, an interval on
\* clearInterval); its id, if listed, stays in this.timers.
Drop(s, i) ==
  [s EXCEPT !.tasks = [k \in 1..(Len(s.tasks) - 1) |->
                         IF k < i THEN s.tasks[k] ELSE s.tasks[k + 1]],
            !.stale = IF s.tasks[i].listed THEN @ + 1 ELSE @]

ListedTasks(s) == {i \in 1..Len(s.tasks) : s.tasks[i].listed}

\* The state the operations transform; cbs counts the completion callbacks
\* the running step has called.
Now ==
  [audio |-> Elapse(audio), tasks |-> tasks, stale |-> stale, cbs |-> 0,
   denied |-> "none", uncaught |-> uncaught, rand |-> rand]

\* this.timers.length
Listed(s) == Cardinality(ListedTasks(s)) + s.stale

Room(n) == Listed([tasks |-> tasks, stale |-> stale]) + n <= MaxIds

PendingOf(s, kind) == {i \in 1..Len(s.tasks) : s.tasks[i].kind = kind}

\* The active timers whose callback is of the given kind.
Active(kind) == PendingOf([tasks |-> tasks], kind)

\* The delay as it would be with scheduleWaves2's numbers.
birdDelayOfSwell(r) == RandomDelay(r, 20000, 10000)

\* Math.random() * 17000 + 8000
birdDelay(r) == RandomDelay(r, 17000, 8000)

\* Math.random() * 20000 + 10000
swellDelay(r) == RandomDelay(r, 20000, 10000)

\* duration = Math.random() * 10000 + 8000
holdDelay(r) == RandomDelay(r, 10000, 8000)

scheduleNextBird(s) == Arm(s, Timeout("bird", 0, birdDelay(s.rand)))

scheduleWaves2(s) == Arm(s, Timeout("swell", 0, swellDelay(s.rand)))

fadeAudio(s, g, startVol, endVol, phase) ==
  Arm(s, Interval(g, startVol, endVol, phase))

\* ------------------------------------------------------------ operations
\* init(): this.waves, this.birds and this.waves2 are new elements; the old
\* ones live on, and the intervals that hold one go on changing it.
init_(s) ==
  [s EXCEPT !.audio = [g \in Gens |->
                         IF g = 0 THEN InitAudio ELSE s.audio[g - 1]],
            !.tasks = [i \in 1..Len(s.tasks) |->
                         IF s.tasks[i].kind = "fade"
                         THEN [s.tasks[i] EXCEPT !.g = @ + 1]
                         ELSE s.tasks[i]]]

\* this.timers.forEach(t => clearTimeout(t)); this.timers = []
ClearAll(s) ==
  [s EXCEPT !.tasks = SelectSeq(s.tasks, LAMBDA t : ~t.listed),
            !.stale = 0]

\* stop() as it would be without line 113.
stopLeavesSwell(s) ==
  ClearAll(Pause(Pause(s, 0, "waves"), 0, "birds"))

stop_(s) ==
  ClearAll(Pause(Pause(Pause(s, 0, "waves"), 0, "birds"), 0, "waves2"))

start_(s, ok) ==
  scheduleWaves2(scheduleNextBird(Play(s, 0, "waves", ok)))

\* The clamp as it would be without Math.min.
ClampBelowOnly(v) == Max(0, v)

\* Math.max(0, Math.min(1, v))
Clamp(v) == Max(0, Min(Unit, v))

\* a / b as the arithmetic of the volumes gives it: the quotient is rounded
\* to the nearest value that can be represented (here a whole unit).
Quotient(a, b) == (2 * a + b) \div (2 * b)

\* (endVol - startVol) / steps
volStep(startVol, endVol) == Quotient(endVol - startVol, steps)

\* The value line 157 assigns on the tick that makes the counter `step`.
StepVolume(startVol, endVol, step) ==
  Clamp(startVol + volStep(startVol, endVol) * step)

\* `if (cb) cb()`: the call is counted.
Called(s) == [s EXCEPT !.cbs = @ + 1]

\* The callback of scheduleNextBird's timeout.
birdCallback(s, ok) == Play(SeekToStart(s, 0, "birds"), 0, "birds", ok)

\* playWaves2Swell as it would be if it scheduled the next swell at once.
playWaves2SwellRearm(s, ok, targetVol) ==
  scheduleWaves2(
    fadeAudio(Play(SeekToStart(s, 0, "waves2"), 0, "waves2", ok),
              0, 0, targetVol, "in"))

playWaves2Swell(s, ok, targetVol) ==
  fadeAudio(Play(SeekToStart(s, 0, "waves2"), 0, "waves2", ok),
            0, 0, targetVol, "in")

\* The completion callbacks as they would be without this.waves2.pause().
fadeDoneNoPause(s, phase, targetVol) ==
  CASE phase = "in" ->
         Called(Arm(s, Timeout("hold", targetVol, holdDelay(s.rand))))
    [] phase = "out" -> Called(scheduleWaves2(s))
    [] OTHER -> s

\* The completion callbacks fadeAudio is given: after the fade-in the hold
\* timeout is armed, after the fade-out the channel is paused and the next
\* swell is scheduled; "none" is a call without cb.
fadeDone(s, phase, targetVol) ==
  CASE phase = "in" ->
         Called(Arm(s, Timeout("hold", targetVol, holdDelay(s.rand))))
    [] phase = "out" -> Called(scheduleWaves2(Pause(s, 0, "waves2")))
    [] OTHER -> s

\* The callback of the hold timeout.
holdCallback(s, targetVol) == fadeAudio(s, 0, targetVol, 0, "out")

\* The interval callback as it would be without clearInterval(iv).
fadeStepNoClear(s, id) ==
  LET t == s.tasks[id]
      n == t.step + 1
      s1 == [s EXCEPT !.tasks[id].step = Min(n, steps),
                      !.audio[t.g]["waves2"].volume =
                         StepVolume(t.startVol, t.endVol, n)]
  IN IF n >= steps THEN fadeDone(s1, t.phase, t.endVol) ELSE s1

\* The interval callback as it would be with step++ after the assignment.
fadeStepLate(s, id) ==
  LET t == s.tasks[id]
      n == t.step + 1
      s1 == [s EXCEPT !.tasks[id].step = n,
                      !.audio[t.g]["waves2"].volume =
                         StepVolume(t.startVol, t.endVol, t.step)]
  IN IF n >= steps
     THEN fadeDone(Drop(s1, id), t.phase, t.endVol)
     ELSE s1

\* One run of fadeAudio's interval callback.
fadeStep(s, id) ==
  LET t == s.tasks[id]
      n == t.step + 1
      s1 == [s EXCEPT !.tasks[id].step = n,
                      !.audio[t.g]["waves2"].volume =
                         StepVolume(t.startVol, t.endVol, n)]
  IN IF n >= steps
     THEN fadeDone(Drop(s1, id), t.phase, t.endVol)
     ELSE s1

\* The program holds no reference to an element of an earlier generation
\* except in the closure of a fade: it never reads its volume or position,
\* which are not kept; what is kept is whether it plays and whether its
\* 'ended' event is queued.
Collect(s) ==
  [g \in Gens |-> [c \in Chan |->
     IF g = 0 THEN s.audio[g][c]
     ELSE [InitAudio[c] EXCEPT !.paused = s.audio[g][c].paused,
                               !.ended = s.audio[g][c].ended]]]

Commit(s) ==
  LET r == s
  IN /\ audio' = Collect(r)
     /\ tasks' = r.tasks
     /\ stale' = r.stale
     /\ cbs' = r.cbs
     /\ denied' = r.denied
     /\ uncaught' = r.uncaught
     /\ rand' = r.rand

TypeOK ==
  /\ active \in BOOLEAN
  /\ stale \in 0..MaxIds
  /\ Len(tasks) + stale <= MaxIds
  /\ calls \in 0..MaxCalls
  /\ cbs \in 0..1
  /\ denied \in Chan \cup {"none"}
  /\ uncaught \in BOOLEAN
  /\ rand \in 0..(RandDenom - 1)
  /\ \A g \in Gens, c \in Chan : audio[g][c].pos \in 0..1

\* The state once the script has loaded: line 163 has run init().
Loaded ==
  /\ audio = [g \in Gens |-> InitAudio]
  /\ tasks = <<>>
  /\ stale = 0
  /\ active = FALSE
  /\ calls = 0
  /\ cbs = 0
  /\ denied = "none"
  /\ uncaught = FALSE

\* Math.random() returns 0.
Init == Loaded /\ rand = 0

\* The host's calls.
Call == calls < MaxCalls /\ calls' = calls + 1

init ==
  /\ Call
  /\ Commit(init_(Now))
  /\ UNCHANGED active

\* `if (!this.waves) this.init()` never runs init(): waves is set at load.
start ==
  /\ Call
  /\ Room(2)
  /\ \E ok \in BOOLEAN : Commit(start_(Now, ok))
  /\ active' = TRUE

stop ==
  /\ Call
  /\ Commit(stop_(Now))
  /\ active' = FALSE

BirdFire(id) ==
  /\ id \in Active("bird")
  /\ \E ok \in BOOLEAN : Commit(birdCallback(Drop(Now, id), ok))
  /\ UNCHANGED <<active, calls>>

SwellFire(id) ==
  /\ id \in Active("swell")
  /\ Room(1)
  /\ \E ok \in BOOLEAN, tv \in TargetVols :
        Commit(playWaves2Swell(Drop(Now, id), ok, Vol(tv)))
  /\ UNCHANGED <<active, calls>>

HoldFire(id) ==
  /\ id \in Active("hold")
  /\ Room(1)
  /\ Commit(holdCallback(Drop(Now, id), tasks[id].endVol))
  /\ UNCHANGED <<active, calls>>

\* The last tick of a fade with a completion callback arms a timer.
FadeTick(id) ==
  /\ id \in Active("fade")
  /\ (tasks[id].step + 1 >= steps /\ tasks[id].phase # "none") => Room(1)
  /\ Commit(fadeStep(Now, id))
  /\ UNCHANGED <<active, calls>>

\* A playing birds element (loop is not set) reaches its end: the platform
\* pauses it and queues its 'ended' event, which the event loop dispatches
\* in a later step (other steps, stop() among them, may run in between).
PlaybackEnd(g) ==
  /\ ~audio[g]["birds"].paused
  /\ Commit([Now EXCEPT !.audio[g]["birds"] =
               [@ EXCEPT !.paused = TRUE, !.ended = TRUE]])
  /\ UNCHANGED <<active, calls>>

\* The queued 'ended' event runs the listener init() added.
DispatchEnded(g) ==
  /\ audio[g]["birds"].ended
  /\ Room(1)
  /\ Commit(scheduleNextBird([Now EXCEPT !.audio[g]["birds"].ended = FALSE]))
  /\ UNCHANGED <<active, calls>>

Next ==
  \/ init
  \/ start
  \/ stop
  \/ \E id \in 1..MaxIds : BirdFire(id)
  \/ \E id \in 1..MaxIds : SwellFire(id)
  \/ \E id \in 1..MaxIds : HoldFire(id)
  \/ \E id \in 1..MaxIds : FadeTick(id)
  \/ \E g \in Gens : PlaybackEnd(g)
  \/ \E g \in Gens : DispatchEnded(g)

Spec == Init /\ [][Next]_vars

\* ------------------------------------------------- a host that also fades
\* fadeAudio is a method of the global AudioManager like any other: a host
\* script may call it on this.waves2 with volumes of its own and no cb.
\* The volumes it passes: one below 0, one above 1.
HostVols == {Vol(-50), Vol(150)}

HostFade(startVol, endVol) ==
  /\ Call
  /\ Room(1)
  /\ Commit(fadeAudio(Now, 0, startVol, endVol, "none"))
  /\ UNCHANGED active

NextFade ==
  \/ init
  \/ stop
  \/ \E a \in HostVols, b \in HostVols : HostFade(a, b)
  \/ \E id \in 1..MaxIds : FadeTick(id)

FadeSpec == Init /\ [][NextFade]_vars

\* The same host with volumes inside [0,1]: silence, and a third, a value
\* from which the division by steps does not come out even.
InexactVols == {Vol(0), Vol(33) + 1}

NextDrift ==
  \/ init
  \/ stop
  \/ \E a \in InexactVols, b \in InexactVols : HostFade(a, b)
  \/ \E id \in 1..MaxIds : FadeTick(id)

DriftSpec == Init /\ [][NextDrift]_vars

\* ------------------------------------------- the session by random value
\* Math.random() returns any of its values, the same in every call of one
\* run; the channels are the ones made at load.
InitDelay == Loaded /\ rand \in 0..(RandDenom - 1)

NextDelay ==
  \/ start
  \/ stop
  \/ \E id \in 1..MaxIds : BirdFire(id)
  \/ \E id \in 1..MaxIds : SwellFire(id)
  \/ \E id \in 1..MaxIds : HoldFire(id)
  \/ \E id \in 1..MaxIds : FadeTick(id)
  \/ PlaybackEnd(0)
  \/ DispatchEnded(0)

DelaySpec == InitDelay /\ [][NextDelay]_vars

\* ---------------------------------------------------------------- claims
Fades == Active("fade")

FadesOf(ts) == SelectSeq(ts, LAMBDA t : t.kind = "fade")

\* The step is not one of the host's calls (init, start, stop): it is a
\* timer firing, an interval tick or a media event.
EventStep == calls' = calls

\* Fade i made its last tick in this step: it is gone, the others are as
\* they were.
Completes(i) ==
  /\ EventStep
  /\ tasks[i].step = steps - 1
  /\ FadesOf(tasks') = FadesOf([k \in 1..(Len(tasks) - 1) |->
                                  IF k < i THEN tasks[k] ELSE tasks[k + 1]])

\* A timer of the one-shot chain is armed, or a birds element is playing or
\* has its 'ended' event queued.
BirdChainAlive ==
  \/ Active("bird") # {}
  \/ \E g \in Gens : ~audio[g]["birds"].paused \/ audio[g]["birds"].ended

\* A swell timer, a fade or a hold is active.
SwellChainAlive ==
  \E i \in 1..Len(tasks) : tasks[i].kind \in {"swell", "fade", "hold"}

\* C1: after stop() and until the next start(), no callback runs, no timer is
\* armed and no channel's volume, play state or position changes.
C1_NothingRunsAfterStop ==
  [][(~active /\ ~active' /\ EventStep)
        => UNCHANGED <<audio[0], tasks, stale>>]_vars

\* C2: start() while the session is active is a no-op: the armed timers are
\* the same after it as before.
C2_StartIsIdempotent ==
  [][(active /\ start) => tasks' = tasks]_vars

\* C3: once a second fade has been requested on a channel, the first fade on
\* that channel takes no further step (and so never completes).
C3_SecondFadeSupersedes ==
  [][\A i \in Fades :
        (\E j \in Fades : j > i /\ tasks[j].g = tasks[i].g) => ~FadeTick(i)]_vars

\* C4: a fade's completion callback runs once, on the tick that makes its
\* counter reach `steps`, and that tick ends the fade; stop() ends every
\* fade without running a callback, and while the session is stopped no fade
\* is active and no callback runs.
C4_CallbackOnceOnFinalStep ==
  [][/\ cbs' <= 1
     /\ cbs' = 1 => \E i \in Fades : Completes(i)
     /\ \A i \in Fades : (Completes(i) /\ tasks[i].phase # "none") => cbs' = 1
     /\ ~active' => cbs' = 0 /\ FadesOf(tasks') = <<>>]_vars

\* A fade-in has just completed: its callback ran once and armed the hold.
C4_Witness ==
  /\ cbs = 1
  /\ Active("hold") # {}

\* C5: at most one fade is active on any one element.
C5_OneEnvelopePerChannel ==
  \A g \in Gens : Cardinality({i \in Fades : tasks[i].g = g}) <= 1

\* C6: while the session is active each chain has a next firing on the way:
\* the one-shot chain and the swell chain are both alive.
C6_ChainsNeverEnd == active => BirdChainAlive /\ SwellChainAlive

\* C7: stop() leaves this.waves, this.birds and this.waves2 paused,
\* this.timers empty and no timer active.
C7_StopHaltsEverything ==
  [][stop => /\ \A c \in Chan : audio'[0][c].paused
             /\ stale' = 0
             /\ tasks' = <<>>]_vars

\* stop() has interrupted a fade: the swell channel is paused at the volume
\* a tick left it with, and nothing is armed.
C7_Witness ==
  /\ ~active
  /\ tasks = <<>>
  /\ stale = 0
  /\ audio[0]["waves2"].volume \notin {0} \cup {Vol(tv) : tv \in TargetVols}
  /\ \A c \in Chan : audio[0][c].paused

\* C8: init() with the channels already there changes nothing: the channels
\* keep their play state and volume, and no element is left playing that
\* stop() cannot reach.
C8_InitIsIdempotent ==
  [][init => /\ \A c \in Chan :
                   /\ audio'[0][c].paused = audio[0][c].paused
                   /\ audio'[0][c].volume = audio[0][c].volume
             /\ \A g \in Gens \ {0}, c \in Chan : audio'[g][c].paused]_vars

\* C9: this.timers lists exactly the ids of the timers that are still active.
C9_RegistryIsThePending ==
  /\ stale = 0
  /\ \A i \in 1..Len(tasks) : tasks[i].listed

\* C10: every element's volume is within [0,1].
C10_VolumeInRange ==
  \A g \in Gens, c \in Chan : audio[g][c].volume \in 0..Unit

\* A tick whose interpolated value lies outside [0,1] has set the volume.
C10_Witness ==
  \E i \in Fades :
     /\ tasks[i].step >= 1
     /\ tasks[i].startVol + volStep(tasks[i].startVol, tasks[i].endVol)
           * tasks[i].step > Unit
     /\ audio[tasks[i].g]["waves2"].volume = Unit

\* C11: stop() while the session is idle (never started, or stopped) is a
\* no-op: the channels and this.timers are after it as they were before.
C11_StopIsIdempotent ==
  [][(~active /\ stop) => UNCHANGED <<audio[0], tasks, stale>>]_vars

\* The step is a call of start(): the host's only call that arms timers.
StartStep == calls' = calls + 1 /\ Len(tasks') = Len(tasks) + 2

\* C12: a refused play() is swallowed: no rejection is left unhandled; the
\* refused channel, if paused, stays paused; the step arms the timers it
\* arms when play() succeeds and none besides (no retry); and every start()
\* attempts playback of the loop again, whatever came before.
C12_PlayRefusalSwallowed ==
  [][/\ ~uncaught'
     /\ \A c \in Chan :
          (denied' = c /\ audio[0][c].paused) => audio'[0][c].paused
     /\ denied' = "waves" => StartStep
     /\ denied' = "birds" =>
          /\ EventStep
          /\ Len(tasks') = Len(tasks) - 1
     /\ denied' = "waves2" =>
          /\ EventStep
          /\ Len(tasks') = Len(tasks)
          /\ Cardinality(PendingOf([tasks |-> tasks'], "fade"))
                = Cardinality(Fades) + 1
     /\ (StartStep /\ audio'[0]["waves"].paused) => denied' = "waves"]_vars

\* start() was refused playback of the loop and has armed both chains.
C12_Witness ==
  /\ denied = "waves"
  /\ active
  /\ audio[0]["waves"].paused
  /\ Active("bird") # {}
  /\ Active("swell") # {}

\* C13: the tick that completes a fade leaves the element's volume at endVol
\* (clamped to [0,1]) exactly.
C13_FinalVolumeIsEndVol ==
  [][\A i \in Fades :
        (Completes(i) /\ tasks[i].g = 0)
           => audio'[0]["waves2"].volume = Clamp(tasks[i].endVol)]_vars

\* C14: every one-shot cue timer is armed with a delay in [8000, 25000) and
\* every swell timer with a delay in [10000, 30000).
C14_DelaysInRange ==
  \A i \in 1..Len(tasks) :
     /\ tasks[i].kind = "bird" =>
          (tasks[i].delay >= 8000 /\ tasks[i].delay < 25000)
     /\ tasks[i].kind = "swell" =>
          (tasks[i].delay >= 10000 /\ tasks[i].delay < 30000)

\* Math.random() returns its largest value: both chains are armed with the
\* longest delay they can have, the swell timer by a completed swell.
C14_Witness ==
  /\ rand = RandDenom - 1
  /\ calls = 1
  /\ Active("bird") # {}
  /\ \E i \in Active("swell") : tasks[i].delay >= 25000
  /\ cbs = 1

\* How many swell chains are in each phase: waiting for the swell timer,
\* fading in, holding, fading out.
Phases(ts) ==
  <<Cardinality({i \in 1..Len(ts) : ts[i].kind = "swell"}),
    Cardinality({i \in 1..Len(ts) : ts[i].kind = "fade" /\ ts[i].phase = "in"}),
    Cardinality({i \in 1..Len(ts) : ts[i].kind = "hold"}),
    Cardinality({i \in 1..Len(ts) : ts[i].kind = "fade" /\ ts[i].phase = "out"})>>

\* One chain has moved from phase a to the next phase b; nothing else has
\* changed phase.
Moved(a, b) ==
  \A k \in 1..4 :
     Phases(tasks')[k] = Phases(tasks)[k] + (IF k = b THEN 1 ELSE 0)
                                          - (IF k = a THEN 1 ELSE 0)

\* C15: a swell chain is in one phase at a time and takes the phases in
\* order: a timer firing, an interval tick or a media event either leaves
\* every chain in its phase or moves one chain to the next phase (swell
\* timer, fade-in, hold, fade-out, swell timer), a fade only by its last
\* tick, and the move out of the fade-out leaves this.waves2 paused; a
\* session started once has one swell timer, fade or hold, never two.
C15_SwellPhasesInOrder ==
  [][/\ EventStep =>
          \/ Phases(tasks') = Phases(tasks)
          \/ Moved(1, 2)
          \/ Moved(2, 3) /\ \E i \in Fades : Completes(i) /\ tasks[i].phase = "in"
          \/ Moved(3, 4)
          \/ /\ Moved(4, 1)
             /\ \E i \in Fades : Completes(i) /\ tasks[i].phase = "out"
             /\ audio'[0]["waves2"].paused
     /\ (calls' = 1 /\ active') =>
          Phases(tasks')[1] + Phases(tasks')[2] + Phases(tasks')[3]
             + Phases(tasks')[4] = 1]_vars

\* A session started once has gone through a whole swell cycle: the
\* fade-out has just completed, the channel is paused and the next swell
\* timer is the only thing the chain has pending.
C15_Witness ==
  /\ calls = 1
  /\ cbs = 1
  /\ Phases(tasks) = <<1, 0, 0, 0>>
  /\ audio[0]["waves2"].paused
  /\ ~audio[0]["waves"].paused

\* Fade i made a tick that was not its last: its counter went up by one and
\* no other timer changed.
Ticked(i) ==
  /\ EventStep
  /\ tasks[i].step + 1 < steps
  /\ tasks' = [tasks EXCEPT ![i].step = @ + 1]

\* The linear interpolation at step k, clamped: k times the per-step delta
\* (endVol - startVol) / steps above startVol.
Interpolated(startVol, endVol, k) ==
  Max(0, Min(Unit, startVol + k * Quotient(endVol - startVol, steps)))

\* C16: every tick belongs to one fade, whose step index it raises by one,
\* to `steps` at most; it leaves the element's volume at the interpolation
\* for the new index, clamped to [0,1]; and the tick that reaches `steps`
\* ends the fade, so an active fade's index is below `steps`.
C16_StepsInOrder ==
  [][/\ EventStep =>
          \E i \in Fades :
             /\ Ticked(i) \/ Completes(i)
             /\ tasks[i].g = 0 =>
                  audio'[0]["waves2"].volume =
                     Interpolated(tasks[i].startVol, tasks[i].endVol,
                                  tasks[i].step + 1)
     /\ \A i \in 1..Len(tasks') :
          tasks'[i].kind = "fade" => tasks'[i].step \in 0..(steps - 1)]_vars

\* A fade from below 0 to above 1 is on its way: the last tick left the
\* volume strictly inside [0,1].
C16_Witness ==
  \E i \in Fades :
     /\ tasks[i].g = 0
     /\ tasks[i].step >= 1
     /\ tasks[i].startVol < 0
     /\ tasks[i].endVol > Unit
     /\ audio[0]["waves2"].volume
           = Interpolated(tasks[i].startVol, tasks[i].endVol, tasks[i].step)
     /\ audio[0]["waves2"].volume \in 1..(Unit - 1)

\* C17: when the swell timer of the session's one swell chain fires and
\* this.waves2 starts to play, its volume is 0.
C17_SwellStartsFromSilence ==
  [][(/\ EventStep
      /\ Phases(tasks) = <<1, 0, 0, 0>>
      /\ Moved(1, 2)
      /\ ~audio'[0]["waves2"].paused)
        => /\ audio[0]["waves2"].volume = 0
           /\ audio'[0]["waves2"].volume = 0]_vars

\* C18: start() in a stopped session leaves one one-shot timer and one swell
\* timer armed and nothing else, fade or hold or other timer, pending, the
\* registry holding just these two, and the loop playing unless the platform
\* refused.
C18_RestartArmsOneOfEach ==
  [][(~active /\ StartStep) =>
        /\ Len(tasks') = 2
        /\ Cardinality(PendingOf([tasks |-> tasks'], "bird")) = 1
        /\ Phases(tasks') = <<1, 0, 0, 0>>
        /\ stale' = 0
        /\ denied' # "waves" => ~audio'[0]["waves"].paused]_vars

\* C19: with no fade and no hold pending, this.waves2 is paused.
C19_SwellChannelPausedBetweenCycles ==
  (Fades = {} /\ Active("hold") = {}) => audio[0]["waves2"].paused

\* The channel has played a swell through and has been paused by the
\* fade-out's completion callback; the session is running and waits for the
\* next swell.
C19_Witness ==
  /\ active
  /\ cbs = 1
  /\ Fades = {}
  /\ Active("hold") = {}
  /\ Active("swell") # {}
  /\ audio[0]["waves2"].paused
  /\ audio[0]["waves2"].pos = 1
====
